---------------------------- MODULE Spec2Model ----------------------------
(***************************************************************************)
(* A model of UniversalMediaDownloader's core: the DownloadManager         *)
(* (src/downloaders/manager.py), the generic yt-dlp downloaders            *)
(* (src/downloaders/base.py, youtube.py, twitter.py, instagram.py) and the *)
(* browser-driven AudiomackDownloader (src/downloaders/audiomack.py).      *)
(*                                                                         *)
(* Strings the code inspects (URLs, domains, metadata) are sequences of    *)
(* one-character strings, so that lower(), substring tests, re.sub and     *)
(* slicing are computed and not assumed.  Python's None is the value None. *)
(* External collaborators (file system, extraction engine, browser, HTTP)  *)
(* are nondeterministic choices over the outcomes they can produce.        *)
(***************************************************************************)
EXTENDS Integers, Sequences, FiniteSets, TLC

VARIABLES
    progress_callback,  \* DownloadManager.progress_callback: TRUE = a callable, FALSE = None
    _downloaders,       \* DownloadManager._downloaders: PLATFORM_NAME -> instance id
    instances,          \* every BaseDownloader constructed so far: id -> [cls, _ffmpeg_path,
                        \* resolutions (the times lines 65-78 of _get_ffmpeg_path ran
                        \* in the call in progress)]
    imageio_ffmpeg,     \* what imageio_ffmpeg.get_ffmpeg_exe() yields (None: import/lookup raises)
    system_ffmpeg,      \* what shutil.which("ffmpeg") yields (None: not on PATH)
    downloads,          \* download calls made on this manager so far
    pc,                 \* position of the one manager call in flight ("idle": none, "done": ended)
    call,               \* the manager call in flight or just ended: [method, arg] (<<>>: none)
    inst,               \* id of the downloader serving the call (0: none)
    opts,               \* the merged yt-dlp options of the call (<<>>: not built)
    hook_calls,         \* engine hook invocations during the call
    events,             \* DownloadProgress objects delivered to the callback during the call
    ops,                \* external operations (file system, network, browser) of the call, in order
    result,             \* <<>> or <<value the call returned>>
    raised,             \* <<>> or <<exception that left the call>>
    am,                 \* the Audiomack download: its locals [driver, metadata, logs, streaming_url,
                        \* dest_path], the files of the output directory, the transcode's outcome
    san,                \* a metadata string under sanitization: [field, stage, input, output, again]
    ui                  \* the MainWindow: [_downloading, button, worker, in_flight, after, config,
                        \* dialog, outcome] (<<>>: the manager is used without the window)

vars == <<progress_callback, _downloaders, instances, imageio_ffmpeg, system_ffmpeg,
          downloads, pc, call, inst, opts, hook_calls, events, ops, result, raised, am, san, ui>>

None == "<None>"

(***************************************************************************)
(* Bounds of the model.                                                    *)
(***************************************************************************)
\* longest URL given to detect_platform, in pieces of DetectPieces
MaxPieces == 2
\* most hook invocations the engine makes during one download
MaxHookCalls == 1
\* most download calls made on one manager
MaxDownloads == 2
\* longest tail appended to the padding of a sanitizer input
MaxTail == 2

(***************************************************************************)
(* Strings.                                                                *)
(***************************************************************************)
S_youtube_com == <<"y","o","u","t","u","b","e",".","c","o","m">>
S_youtu_be == <<"y","o","u","t","u",".","b","e">>
S_youtube_nocookie_com == <<"y","o","u","t","u","b","e","-","n","o","c","o","o","k","i","e",".","c","o","m">>
S_music_youtube_com == <<"m","u","s","i","c",".","y","o","u","t","u","b","e",".","c","o","m">>
S_twitter_com == <<"t","w","i","t","t","e","r",".","c","o","m">>
S_x_com == <<"x",".","c","o","m">>
S_mobile_twitter_com == <<"m","o","b","i","l","e",".","t","w","i","t","t","e","r",".","c","o","m">>
S_mobile_x_com == <<"m","o","b","i","l","e",".","x",".","c","o","m">>
S_instagram_com == <<"i","n","s","t","a","g","r","a","m",".","c","o","m">>
S_www_instagram_com == <<"w","w","w",".","i","n","s","t","a","g","r","a","m",".","c","o","m">>
S_instagr_am == <<"i","n","s","t","a","g","r",".","a","m">>
S_audiomack_com == <<"a","u","d","i","o","m","a","c","k",".","c","o","m">>
S_www_audiomack_com == <<"w","w","w",".","a","u","d","i","o","m","a","c","k",".","c","o","m">>

\* str.lower() on the ASCII letters
LowerTable ==
    [A |-> "a", B |-> "b", C |-> "c", D |-> "d", E |-> "e", F |-> "f", G |-> "g",
     H |-> "h", I |-> "i", J |-> "j", K |-> "k", L |-> "l", M |-> "m", N |-> "n",
     O |-> "o", P |-> "p", Q |-> "q", R |-> "r", S |-> "s", T |-> "t", U |-> "u",
     V |-> "v", W |-> "w", X |-> "x", Y |-> "y", Z |-> "z"]

lower_char(c) == IF c \in DOMAIN LowerTable THEN LowerTable[c] ELSE c

lower(s) == [i \in 1..Len(s) |-> lower_char(s[i])]

\* Python's `sub in s` for strings
Contains(s, sub) ==
    \E i \in 0..(Len(s) - Len(sub)) : \A j \in 1..Len(sub) : s[i + j] = sub[j]

(***************************************************************************)
(* The registry (manager.py) and the downloader classes.                   *)
(***************************************************************************)
DOWNLOADERS ==
    <<"YouTubeDownloader", "TwitterDownloader", "InstagramDownloader", "AudiomackDownloader">>

PLATFORM_NAME(cls) ==
    CASE cls = "YouTubeDownloader" -> "YouTube"
      [] cls = "TwitterDownloader" -> "X (Twitter)"
      [] cls = "InstagramDownloader" -> "Instagram"
      [] cls = "AudiomackDownloader" -> "Audiomack"

SUPPORTED_DOMAINS(cls) ==
    CASE cls = "YouTubeDownloader" ->
            <<S_youtube_com, S_youtu_be, S_youtube_nocookie_com, S_music_youtube_com>>
      [] cls = "TwitterDownloader" ->
            <<S_twitter_com, S_x_com, S_mobile_twitter_com, S_mobile_x_com>>
      [] cls = "InstagramDownloader" ->
            <<S_instagram_com, S_www_instagram_com, S_instagr_am>>
      [] cls = "AudiomackDownloader" ->
            <<S_audiomack_com, S_www_audiomack_com>>

can_handle(cls, url) ==
    LET url_lower == lower(url)
    IN  \E i \in 1..Len(SUPPORTED_DOMAINS(cls)) :
            Contains(url_lower, SUPPORTED_DOMAINS(cls)[i])

\* the loop of detect_platform from registry position i on
RECURSIVE detect_from(_, _)
detect_from(i, url) ==
    IF i > Len(DOWNLOADERS) THEN "Desconocida"
    ELSE IF can_handle(DOWNLOADERS[i], url) THEN PLATFORM_NAME(DOWNLOADERS[i])
    ELSE detect_from(i + 1, url)

\* detect_platform that keeps looping after a match: the last match wins
RECURSIVE detect_last_from(_, _, _)
detect_last_from(i, url, found) ==
    IF i > Len(DOWNLOADERS) THEN found
    ELSE detect_last_from(i + 1, url,
            IF can_handle(DOWNLOADERS[i], url) THEN PLATFORM_NAME(DOWNLOADERS[i]) ELSE found)

detect_platform_last_match(url) == detect_last_from(1, url, "Desconocida")

detect_platform(url) == detect_from(1, url)

get_supported_platforms == [i \in 1..Len(DOWNLOADERS) |-> PLATFORM_NAME(DOWNLOADERS[i])]

\* the loop of _get_downloader stopping one class short of the registry's end
RECURSIVE resolve_from_off_by_one(_, _)
resolve_from_off_by_one(i, url) ==
    IF i >= Len(DOWNLOADERS) THEN 0
    ELSE IF can_handle(DOWNLOADERS[i], url) THEN i
    ELSE resolve_from_off_by_one(i + 1, url)

\* the loop of _get_downloader: the registry position of the first class that
\* can handle the URL, 0 when the loop falls through to the raise
RECURSIVE resolve_from(_, _)
resolve_from(i, url) ==
    IF i > Len(DOWNLOADERS) THEN 0
    ELSE IF can_handle(DOWNLOADERS[i], url) THEN i
    ELSE resolve_from(i + 1, url)

\* the ValueError of _get_downloader; the message is its literal head followed by
\* the joined platform names
UnsupportedURLError ==
    [cls |-> "ValueError",
     msg |-> <<"URL no soportada. Plataformas disponibles: ">>
                \o [i \in 1..Len(DOWNLOADERS) |-> PLATFORM_NAME(DOWNLOADERS[i])]]

\* BaseDownloader.__init__
NewDownloader(cls) == [cls |-> cls, _ffmpeg_path |-> None, resolutions |-> 0]

\* line 37 without its test: a downloader is constructed on every call
key_missing_always(cache, key) == TRUE

\* line 37 of _get_downloader: `key not in self._downloaders`
key_missing(cache, key) == key \notin DOMAIN cache

(***************************************************************************)
(* DownloadConfig, DownloadProgress, the inputs of a download.             *)
(***************************************************************************)
U_youtube == <<"h","t","t","p","s",":","/","/","y","o","u","t","u",".","b","e","/","a","b","c","1","2","3">>
U_twitter == <<"h","t","t","p","s",":","/","/","x",".","c","o","m","/","u","/","s","t","a","t","u","s","/","1">>
U_instagram == <<"h","t","t","p","s",":","/","/","w","w","w",".","I","n","s","t","a","g","r","a","m",".","c","o","m","/","r","e","e","l","/","x","y","z">>
U_audiomack == <<"h","t","t","p","s",":","/","/","a","u","d","i","o","m","a","c","k",".","c","o","m","/","m","c","-","x","/","s","o","n","g","/","m","y","-","s","o","n","g">>
\* an Audiomack page address whose last segment holds a colon
U_audiomack_colon == <<"h","t","t","p","s",":","/","/","a","u","d","i","o","m","a","c","k",".","c","o","m","/","u","/","s","o","n","g","/","a",":","b">>
U_unsupported == <<"h","t","t","p","s",":","/","/","e","x","a","m","p","l","e",".","o","r","g","/","v">>
\* an Audiomack page address that also holds a domain of X
U_ambiguous == <<"h","t","t","p","s",":","/","/","a","u","d","i","o","m","a","c","k",".","c","o","m","/","u","/","s","o","n","g","/","x",".","c","o","m">>

DownloadURLs == {U_youtube, U_twitter, U_instagram, U_audiomack, U_unsupported, U_ambiguous}

\* DownloadConfig: every URL and format without the optional paths, the URLs of
\* the downloaders that read the optional paths with both of them, and the
\* Audiomack address with a colon
DownloadConfigs ==
    { [url |-> u, output_dir |-> "out", output_format |-> f,
       cookies_file |-> None, ffmpeg_path |-> None] :
        u \in DownloadURLs, f \in {"VIDEO", "AUDIO"} }
    \cup
    { [url |-> u, output_dir |-> "out", output_format |-> "VIDEO",
       cookies_file |-> "cookies.txt", ffmpeg_path |-> "/opt/ffmpeg"] :
        u \in {U_youtube, U_twitter, U_instagram} }
    \cup
    { [url |-> U_audiomack_colon, output_dir |-> "out", output_format |-> "VIDEO",
       cookies_file |-> None, ffmpeg_path |-> None] }

\* Python truthiness of an Optional[str]
Truthy(x) == x # None /\ x # ""

\* a percent is the float n/d, kept as the pair <<n, d>>
Pct(n) == <<n, 1>>

\* DownloadProgress(...): the fields not given keep the dataclass defaults
DownloadProgress(percent, status, message) ==
    [percent |-> percent, speed |-> "", eta |-> "", status |-> status, message |-> message]

\* _report_progress: the events delivered so far, after reporting p
_report_progress(evs, p) == IF progress_callback THEN Append(evs, p) ELSE evs

RECURSIVE report_all(_, _)
report_all(evs, ps) ==
    IF ps = <<>> THEN evs ELSE report_all(_report_progress(evs, Head(ps)), Tail(ps))

(***************************************************************************)
(* The transcoding tool (base.py).                                         *)
(***************************************************************************)
\* _get_ffmpeg_path: the value returned when self._ffmpeg_path holds `cached`.
\* Every value found is stored in self._ffmpeg_path before it is returned, and
\* None is returned without a store, so the field afterwards is the value returned.
_get_ffmpeg_path(cached) ==
    IF Truthy(cached) THEN cached
    ELSE IF imageio_ffmpeg # None THEN imageio_ffmpeg
    ELSE IF Truthy(system_ffmpeg) THEN system_ffmpeg
    ELSE None

\* lines 62-63: how many times a call of _get_ffmpeg_path runs the resolution
\* (the import of imageio_ffmpeg and the search of PATH) when the field holds `cached`
resolutions_of_call(cached) == IF Truthy(cached) THEN 0 ELSE 1

\* _has_ffmpeg that looks at the cached field without resolving
_has_ffmpeg_cached_only(cached) == cached # None

_has_ffmpeg(cached) == _get_ffmpeg_path(cached) # None

(***************************************************************************)
(* Options (base.py, youtube.py, twitter.py, instagram.py).                *)
(***************************************************************************)
\* dict.update: b's entries over a's
dict_update(a, b) == b @@ a

\* the value `config.ffmpeg_path or self._get_ffmpeg_path()` of _get_base_options
base_ffmpeg(cfg, cached) ==
    IF Truthy(cfg.ffmpeg_path) THEN cfg.ffmpeg_path ELSE _get_ffmpeg_path(cached)

\* self._ffmpeg_path after _get_base_options: the resolver runs only when the
\* config names no tool
ffmpeg_after_base(cfg, cached) ==
    IF Truthy(cfg.ffmpeg_path) THEN cached ELSE _get_ffmpeg_path(cached)

\* _get_base_options after its makedirs succeeded
_get_base_options(cfg, cached) ==
    dict_update(
        dict_update(
            [outtmpl |-> <<cfg.output_dir, "%(title).120s [%(id)s].%(ext)s">>,
             noplaylist |-> TRUE,
             retries |-> 10,
             fragment_retries |-> 10,
             concurrent_fragment_downloads |-> 4,
             progress_hooks |-> <<"progress_hook">>,
             postprocessor_hooks |-> <<"postprocessor_hook">>,
             quiet |-> TRUE,
             no_warnings |-> TRUE],
            IF Truthy(base_ffmpeg(cfg, cached))
            THEN [ffmpeg_location |-> base_ffmpeg(cfg, cached)] ELSE <<>>),
        IF Truthy(cfg.cookies_file) THEN [cookiefile |-> cfg.cookies_file] ELSE <<>>)

ExtractAudioPP ==
    [key |-> "FFmpegExtractAudio", preferredcodec |-> "mp3", preferredquality |-> "192"]

\* the format part shared by the three generic option builders
VideoFormatOptions(cached) ==
    IF _has_ffmpeg(cached)
    THEN [format |-> "bestvideo+bestaudio/best", merge_output_format |-> "mp4"]
    ELSE [format |-> "best"]

YouTube_get_platform_options(cfg, cached) ==
    dict_update(
        [age_limit |-> 0, nocheckcertificate |-> TRUE],
        IF cfg.output_format = "AUDIO"
        THEN [format |-> "bestaudio/best",
              postprocessors |-> <<ExtractAudioPP, [key |-> "FFmpegMetadata"]>>]
        ELSE VideoFormatOptions(cached))

\* the X option builder whose AUDIO branch forgot the post-processor list
Twitter_get_platform_options_no_pp(cfg, cached) ==
    IF cfg.output_format = "AUDIO"
    THEN [format |-> "bestaudio/best"]
    ELSE VideoFormatOptions(cached)

Twitter_get_platform_options(cfg, cached) ==
    IF cfg.output_format = "AUDIO"
    THEN [format |-> "bestaudio/best", postprocessors |-> <<ExtractAudioPP>>]
    ELSE VideoFormatOptions(cached)

Instagram_get_platform_options(cfg, cached) ==
    dict_update(
        [extractor_args |-> [instagram |-> [skip |-> <<"dash">>]]],
        IF cfg.output_format = "AUDIO"
        THEN [format |-> "bestaudio/best", postprocessors |-> <<ExtractAudioPP>>]
        ELSE VideoFormatOptions(cached))

\* the virtual call self._get_platform_options(config)
_get_platform_options(cls, cfg, cached) ==
    CASE cls = "YouTubeDownloader" -> YouTube_get_platform_options(cfg, cached)
      [] cls = "TwitterDownloader" -> Twitter_get_platform_options(cfg, cached)
      [] cls = "InstagramDownloader" -> Instagram_get_platform_options(cfg, cached)
      [] cls = "AudiomackDownloader" -> <<>>

\* self._ffmpeg_path after _get_platform_options: _has_ffmpeg runs on the VIDEO branch
ffmpeg_after_platform(cls, cfg, cached) ==
    IF cls # "AudiomackDownloader" /\ cfg.output_format # "AUDIO"
    THEN _get_ffmpeg_path(cached) ELSE cached

\* the resolutions run while the options are built: one call in _get_base_options
\* unless the config names a tool, one in the VIDEO branch of the platform's builder
resolutions_of_options(cls, cfg, cached) ==
    (IF Truthy(cfg.ffmpeg_path) THEN 0 ELSE resolutions_of_call(cached))
    + (IF cls # "AudiomackDownloader" /\ cfg.output_format # "AUDIO"
       THEN resolutions_of_call(ffmpeg_after_base(cfg, cached)) ELSE 0)

\* lines 196-198 of BaseDownloader.download: base options, then the platform's over them
MergedOptions(cls, cfg, cached) ==
    dict_update(_get_base_options(cfg, cached),
                _get_platform_options(cls, cfg, ffmpeg_after_base(cfg, cached)))


(***************************************************************************)
(* The engine's hooks (base.py).  Message literals are written in ASCII:   *)
(* the source's ellipsis character is "..." here.                          *)
(***************************************************************************)
S_ExtractAudio == <<"E","x","t","r","a","c","t","A","u","d","i","o">>
S_Metadata == <<"M","e","t","a","d","a","t","a">>
S_FFmpegExtractAudio == <<"F","F","m","p","e","g","E","x","t","r","a","c","t","A","u","d","i","o">>
S_FFmpegMetadata == <<"F","F","m","p","e","g","M","e","t","a","d","a","t","a">>
S_Merger == <<"M","e","r","g","e","r">>

\* the dicts yt-dlp hands to a progress hook; a byte count of 0 stands for a key
\* that is absent, None or 0, which `or` and the default of get() treat alike
ProgressHookInputs ==
    { [status |-> "downloading", total_bytes |-> 0, total_bytes_estimate |-> 0, downloaded_bytes |-> 1],
      [status |-> "downloading", total_bytes |-> 2, total_bytes_estimate |-> 0, downloaded_bytes |-> 1],
      [status |-> "downloading", total_bytes |-> 0, total_bytes_estimate |-> 2, downloaded_bytes |-> 3],
      [status |-> "finished", total_bytes |-> 2, total_bytes_estimate |-> 0, downloaded_bytes |-> 2],
      [status |-> "error", total_bytes |-> 0, total_bytes_estimate |-> 0, downloaded_bytes |-> 0] }

\* the dicts yt-dlp hands to a post-processor hook
PostprocessorHookInputs ==
    { [status |-> st, postprocessor |-> pp] :
        st \in {"started", "finished"},
        pp \in {S_FFmpegExtractAudio, S_FFmpegMetadata, S_Merger} }

\* the hook of _create_progress_hook: the events it reports for d
progress_hook(d) ==
    IF d.status = "downloading" THEN
        LET total == IF d.total_bytes # 0 THEN d.total_bytes
                     ELSE IF d.total_bytes_estimate # 0 THEN d.total_bytes_estimate
                     ELSE 0
            downloaded == d.downloaded_bytes
            percent == IF total > 0 THEN <<downloaded * 100, total>> ELSE Pct(0)
        IN  <<DownloadProgress(percent, "downloading",
                               <<"Descargando... {percent:.1f}%", ToString(percent)>>)>>
    ELSE IF d.status = "finished" THEN
        <<DownloadProgress(Pct(95), "processing", <<"Procesando archivo...", "">>)>>
    ELSE IF d.status = "error" THEN
        <<DownloadProgress(Pct(0), "error", <<"Error en la descarga", "">>)>>
    ELSE <<>>

\* the hook of _create_postprocessor_hook
postprocessor_hook(d) ==
    IF d.status = "started" THEN
        LET pp == d.postprocessor
            msg == IF Contains(pp, S_ExtractAudio) THEN "Extrayendo audio..."
                   ELSE IF Contains(pp, S_Metadata) THEN "Anadiendo metadatos..."
                   ELSE "Procesando..."
        IN  <<DownloadProgress(Pct(97), "processing", <<msg, "">>)>>
    ELSE IF d.status = "finished" THEN
        <<DownloadProgress(Pct(99), "processing", <<"Finalizando...", "">>)>>
    ELSE <<>>

\* what extract_info returns: yt-dlp's info dict, with or without a title
EngineInfos ==
    { [title |-> "Some Title", id |-> "abc123", ext |-> "mp4"],
      [id |-> "abc123", ext |-> "mp4"] }

\* what the engine raises
EngineErrors ==
    { [cls |-> "DownloadError", msg |-> <<"ERROR: Video unavailable">>],
      [cls |-> "ExtractorError", msg |-> <<"ERROR: Unsupported URL">>] }

\* str(e)
str(e) == e.msg[1]

\* info.get(key, default)
dict_get(d, key, default) == IF key \in DOMAIN d THEN d[key] ELSE default

(***************************************************************************)
(* String operations of the Audiomack downloader (audiomack.py).           *)
(***************************************************************************)
S_audiomack_com_slash == <<"a","u","d","i","o","m","a","c","k",".","c","o","m","/">>
S_slash_song_slash == <<"/","s","o","n","g","/">>
S_music_audiomack_com == <<"m","u","s","i","c",".","a","u","d","i","o","m","a","c","k",".","c","o","m">>
S_dot_m4a == <<".","m","4","a">>
S_m4a == <<"m","4","a">>
S_mp3 == <<"m","p","3">>
S_Unknown == <<"U","n","k","n","o","w","n">>
S_unknown == <<"u","n","k","n","o","w","n">>

\* str.upper() on the ASCII letters
UpperTable ==
    [a |-> "A", b |-> "B", c |-> "C", d |-> "D", e |-> "E", f |-> "F", g |-> "G",
     h |-> "H", i |-> "I", j |-> "J", k |-> "K", l |-> "L", m |-> "M", n |-> "N",
     o |-> "O", p |-> "P", q |-> "Q", r |-> "R", s |-> "S", t |-> "T", u |-> "U",
     v |-> "V", w |-> "W", x |-> "X", y |-> "Y", z |-> "Z"]

upper_char(c) == IF c \in DOMAIN UpperTable THEN UpperTable[c] ELSE c

\* a cased character, for str.title()
IsLetter(c) == c \in DOMAIN UpperTable \/ c \in DOMAIN LowerTable

\* the characters \s matches and str.strip() removes
Whitespace == {" ", "\t", "\n", "\r", "\f"}

\* the characters of the class [<>:"/\\|?*]
IllegalChars == {"<", ">", ":", "\"", "/", "\\", "|", "?", "*"}

\* str.replace(old, new) for one-character old and new
replace_char(text, old, new) == [i \in 1..Len(text) |-> IF text[i] = old THEN new ELSE text[i]]

\* str.title(): a letter is upper-cased after a non-letter and lower-cased after a letter
title(text) ==
    [i \in 1..Len(text) |->
        IF ~IsLetter(text[i]) THEN text[i]
        ELSE IF i > 1 /\ IsLetter(text[i - 1]) THEN lower_char(text[i])
        ELSE upper_char(text[i])]

\* str.lstrip(): the text from its first character that is not whitespace
lstrip(text) ==
    LET first == CHOOSE k \in 1..(Len(text) + 1) :
                    /\ k = Len(text) + 1 \/ text[k] \notin Whitespace
                    /\ \A j \in 1..(k - 1) : text[j] \in Whitespace
    IN  [i \in 1..(Len(text) + 1 - first) |-> text[first - 1 + i]]

\* str.rstrip(): the text up to its last character that is not whitespace
rstrip(text) ==
    LET last == CHOOSE k \in 0..Len(text) :
                    /\ k = 0 \/ text[k] \notin Whitespace
                    /\ \A j \in (k + 1)..Len(text) : text[j] \in Whitespace
    IN  [i \in 1..last |-> text[i]]

\* str.strip()
strip(text) == rstrip(lstrip(text))

\* re.sub(r'[<>:"/\\|?*]', '_', text)
sub_illegal(text) ==
    [i \in 1..Len(text) |-> IF text[i] \in IllegalChars THEN "_" ELSE text[i]]

\* re.sub(r'\s+', ' ', text): every maximal run of whitespace becomes one space,
\* computed by dropping each whitespace character that follows a whitespace
\* character and writing a space for the ones that remain
RECURSIVE sub_whitespace(_)
sub_whitespace(text) ==
    LET followers == {i \in 2..Len(text) : text[i] \in Whitespace /\ text[i - 1] \in Whitespace}
    IN  IF followers = {}
        THEN [i \in 1..Len(text) |-> IF text[i] \in Whitespace THEN " " ELSE text[i]]
        ELSE LET d == CHOOSE i \in followers : TRUE
             IN  sub_whitespace([i \in 1..(Len(text) - 1) |->
                                    IF i < d THEN text[i] ELSE text[i + 1]])

\* clean without the substitution of the illegal characters
clean_no_illegal(text) ==
    strip(sub_whitespace(replace_char(replace_char(text, "\n", " "), "\r", " ")))

\* the local function clean of download: lines 186-190
clean(text) ==
    strip(sub_whitespace(sub_illegal(replace_char(replace_char(text, "\n", " "), "\r", " "))))

\* the slice text[:n]
slice_to(text, n) == [i \in 1..(IF Len(text) < n THEN Len(text) ELSE n) |-> text[i]]

TitleCap == 100
ArtistCap == 50

\* lines 192-193: the sanitized title and artist
sanitize_title(text) == slice_to(clean(text), TitleCap)

sanitize_artist(text) == slice_to(clean(text), ArtistCap)

(***************************************************************************)
(* AudiomackDownloader: page metadata, performance log, file names.        *)
(***************************************************************************)
\* s occurs in text from position i on
OccursAt(text, i, s) ==
    /\ i + Len(s) - 1 <= Len(text)
    /\ \A j \in 1..Len(s) : text[i + j - 1] = s[j]

\* the last position of the longest run from position i of characters outside stop
RunEnd(text, i, stop) ==
    CHOOSE e \in (i - 1)..Len(text) :
        /\ \A j \in i..e : text[j] \notin stop
        /\ e = Len(text) \/ text[e + 1] \in stop

\* the match of audiomack\.com/([^/]+)/song/([^/?]+) that starts at position i:
\* <<group 1, group 2>>, or <<>> when there is none.  Group 1 ends where the
\* next "/" is and group 2 runs as far as it can.
match_song_at(url, i) ==
    IF ~OccursAt(url, i, S_audiomack_com_slash) THEN <<>>
    ELSE LET a  == i + Len(S_audiomack_com_slash)
             ae == RunEnd(url, a, {"/"})
             t  == ae + 1 + Len(S_slash_song_slash)
             te == RunEnd(url, t, {"/", "?"})
         IN  IF ae >= a /\ OccursAt(url, ae + 1, S_slash_song_slash) /\ te >= t
             THEN << [k \in 1..(ae - a + 1) |-> url[a + k - 1]],
                     [k \in 1..(te - t + 1) |-> url[t + k - 1]] >>
             ELSE <<>>

\* re.search: the match at the leftmost position that has one
re_search_song(url) ==
    LET starts == {i \in 1..Len(url) : match_song_at(url, i) # <<>>}
    IN  IF starts = {} THEN <<>>
        ELSE match_song_at(url, CHOOSE i \in starts : \A j \in starts : i <= j)

\* line 46
DefaultMetadata == [title |-> S_Unknown, artist |-> S_Unknown, id |-> S_unknown]

\* lines 76-80: the metadata read from the page address
url_metadata(url) ==
    LET match == re_search_song(url)
    IN  IF match = <<>> THEN DefaultMetadata
        ELSE [artist |-> title(replace_char(match[1], "-", " ")),
              title  |-> title(replace_char(match[2], "-", " ")),
              id     |-> match[2]]

\* text.split('\n')
RECURSIVE split_lines(_)
split_lines(text) ==
    LET breaks == {i \in 1..Len(text) : text[i] = "\n"}
    IN  IF breaks = {} THEN <<text>>
        ELSE LET b == CHOOSE i \in breaks : \A j \in breaks : i <= j
             IN  <<SubSeq(text, 1, b - 1)>> \o split_lines(SubSeq(text, b + 1, Len(text)))

\* line 86: [l.strip() for l in text.split('\n') if l.strip()]
heading_lines(text) ==
    LET parts    == split_lines(text)
        stripped == [k \in 1..Len(parts) |-> strip(parts[k])]
    IN  SelectSeq(stripped, LAMBDA l : Len(l) > 0)

\* lines 85-91: the metadata after the page heading with text h1_text was read
heading_metadata(metadata, h1_text) ==
    LET lines == heading_lines(strip(h1_text))
    IN  IF Len(lines) >= 2
        THEN [metadata EXCEPT !.artist = lines[1], !.title = lines[2]]
        ELSE IF Len(lines) = 1 THEN [metadata EXCEPT !.title = lines[1]]
        ELSE metadata

\* the scan keeping the last request it meets instead of stopping at the first
RECURSIVE scan_logs_last_match(_)
scan_logs_last_match(logs) ==
    IF logs = <<>> THEN None
    ELSE LET entry == logs[Len(logs)]
         IN  IF /\ entry.ok
                /\ entry.method = "Network.requestWillBeSent"
                /\ Contains(entry.url, S_music_audiomack_com)
             THEN entry.url
             ELSE scan_logs_last_match(SubSeq(logs, 1, Len(logs) - 1))

\* lines 124-135: the URL of the first entry of the performance log that is a
\* Network.requestWillBeSent for a music.audiomack.com address; an entry that
\* cannot be read (entry.ok = FALSE) is skipped
RECURSIVE scan_logs(_)
scan_logs(logs) ==
    IF logs = <<>> THEN None
    ELSE LET entry == Head(logs)
         IN  IF /\ entry.ok
                /\ entry.method = "Network.requestWillBeSent"
                /\ Contains(entry.url, S_music_audiomack_com)
             THEN entry.url
             ELSE scan_logs(Tail(logs))

\* line 201
extension(streaming_url) == IF Contains(streaming_url, S_dot_m4a) THEN S_m4a ELSE S_mp3

\* line 203: f"{artist} - {title} [{id}].{ext}"
file_name(metadata, ext) ==
    metadata.artist \o <<" ", "-", " ">> \o metadata.title \o <<" ", "[">>
        \o metadata.id \o <<"]", ".">> \o ext

\* line 213: name.rsplit('.', 1)[0] + '.mp3'
mp3_name(name) ==
    LET dots == {i \in 1..Len(name) : name[i] = "."}
        last == CHOOSE i \in dots : \A j \in dots : j <= i
    IN  (IF dots = {} THEN name ELSE SubSeq(name, 1, last - 1)) \o <<".">> \o S_mp3

\* lines 192-193
sanitize_metadata(metadata) ==
    [metadata EXCEPT !.title = sanitize_title(metadata.title),
                     !.artist = sanitize_artist(metadata.artist)]

(***************************************************************************)
(* The state after DownloadManager(progress_callback) is constructed.      *)
(***************************************************************************)
\* the machines: no tool, the bundled imageio tool beside a system tool, a system
\* tool only (the bundled tool alone resolves as the second does)
Environments ==
    { <<None, None>>, <<"/imageio/ffmpeg", "/usr/bin/ffmpeg">>, <<None, "/usr/bin/ffmpeg">> }

Init ==
    /\ progress_callback \in BOOLEAN
    /\ _downloaders = <<>>
    /\ instances = <<>>
    /\ \E env \in Environments : imageio_ffmpeg = env[1] /\ system_ffmpeg = env[2]
    /\ downloads = 0
    /\ pc = "idle"
    /\ call = <<>>
    /\ inst = 0
    /\ opts = <<>>
    /\ hook_calls = 0
    /\ events = <<>>
    /\ ops = <<>>
    /\ result = <<>>
    /\ raised = <<>>
    /\ am = <<>>
    /\ san = <<>>
    /\ ui = <<>>

\* the downloader serving the call, and the call's DownloadConfig
Self == instances[inst]

config == call.arg

IsGeneric(cls) == cls # "AudiomackDownloader"

(***************************************************************************)
(* DownloadManager.detect_platform(url).                                   *)
(***************************************************************************)
DetectPieces ==
    { <<"Y","o","u","T","u","b","e",".","C","O","M">>,
      <<"A","u","d","i","o","m","a","c","k",".","c","o","m","/">>,
      <<"t","w","i","t","t","e","r",".","c","o">>,
      <<"m","/">> }

RECURSIVE Concats(_)
Concats(n) ==
    IF n = 0 THEN {<<>>}
    ELSE LET shorter == Concats(n - 1)
         IN  shorter \cup {u \o p : u \in shorter, p \in DetectPieces}

DetectURLs == Concats(MaxPieces) \cup DownloadURLs

DetectPlatform(url) ==
    /\ pc = "idle"
    /\ call' = [method |-> "detect_platform", arg |-> url]
    /\ result' = <<detect_platform(url)>>
    /\ pc' = "done"
    /\ UNCHANGED <<ui, san, am, progress_callback, _downloaders, instances, imageio_ffmpeg, system_ffmpeg,
                   downloads, inst, opts, hook_calls, events, ops, raised>>

(***************************************************************************)
(* DownloadManager.download(config): _get_downloader, then the downloader's *)
(* download up to its first external call.                                 *)
(***************************************************************************)
StartDownload(cfg) ==
    /\ pc = "idle"
    /\ downloads < MaxDownloads
    /\ downloads' = downloads + 1
    /\ call' = [method |-> "download", arg |-> cfg]
    /\ LET i == resolve_from(1, cfg.url)
       IN  IF i = 0
           THEN /\ raised' = <<UnsupportedURLError>>
                /\ pc' = "done"
                /\ UNCHANGED <<_downloaders, instances, inst, events>>
           ELSE LET cls == DOWNLOADERS[i]
                    key == PLATFORM_NAME(cls)
                    construct == key_missing(_downloaders, key)
                IN  /\ instances' = IF construct THEN Append(instances, NewDownloader(cls))
                                    ELSE instances
                    /\ _downloaders' = IF construct
                                       THEN (key :> Len(instances) + 1) @@ _downloaders
                                       ELSE _downloaders
                    /\ inst' = _downloaders'[key]
                    /\ events' = _report_progress(events,
                            DownloadProgress(Pct(0), "downloading",
                                <<IF IsGeneric(cls) THEN "Iniciando descarga..."
                                  ELSE "Iniciando descarga de Audiomack...", "">>))
                    /\ pc' = IF IsGeneric(cls) THEN "g_options" ELSE "am_driver"
                    /\ raised' = raised
    /\ UNCHANGED <<ui, san, am, progress_callback, imageio_ffmpeg, system_ffmpeg, opts, hook_calls,
                   ops, result>>

(***************************************************************************)
(* BaseDownloader.download (YouTube, X, Instagram).                        *)
(***************************************************************************)
\* os.makedirs of _get_base_options raises: it is outside the try of download
BuildOptionsFails ==
    /\ pc = "g_options"
    /\ ops' = Append(ops, "makedirs")
    /\ raised' = <<[cls |-> "OSError", msg |-> <<"[Errno 13] Permission denied">>]>>
    /\ pc' = "done"
    /\ UNCHANGED <<ui, san, am, progress_callback, _downloaders, instances, imageio_ffmpeg, system_ffmpeg,
                   downloads, call, inst, opts, hook_calls, events, result>>

\* the options are built and merged and the engine is entered
BuildOptions ==
    /\ pc = "g_options"
    /\ opts' = MergedOptions(Self.cls, config, Self._ffmpeg_path)
    /\ instances' = [instances EXCEPT
            ![inst]._ffmpeg_path =
                ffmpeg_after_platform(Self.cls, config, ffmpeg_after_base(config, @)),
            ![inst].resolutions =
                @ + resolutions_of_options(Self.cls, config, Self._ffmpeg_path)]
    /\ ops' = ops \o <<"makedirs", "extract_info">>
    /\ pc' = "g_engine"
    /\ UNCHANGED <<ui, san, am, progress_callback, _downloaders, imageio_ffmpeg, system_ffmpeg,
                   downloads, call, inst, hook_calls, events, result, raised>>

\* the engine calls the progress hook
EngineProgressHook(d) ==
    /\ pc = "g_engine"
    /\ hook_calls < MaxHookCalls
    /\ hook_calls' = hook_calls + 1
    /\ events' = report_all(events, progress_hook(d))
    /\ UNCHANGED <<ui, san, am, progress_callback, _downloaders, instances, imageio_ffmpeg, system_ffmpeg,
                   downloads, pc, call, inst, opts, ops, result, raised>>

\* the engine calls the post-processor hook
EnginePostprocessorHook(d) ==
    /\ pc = "g_engine"
    /\ hook_calls < MaxHookCalls
    /\ hook_calls' = hook_calls + 1
    /\ events' = report_all(events, postprocessor_hook(d))
    /\ UNCHANGED <<ui, san, am, progress_callback, _downloaders, instances, imageio_ffmpeg, system_ffmpeg,
                   downloads, pc, call, inst, opts, ops, result, raised>>

\* download reporting "finished" as the hooks' "processing" does, at 95
finished_events_as_processing(info) ==
    <<DownloadProgress(Pct(95), "processing",
                       <<"Descarga completa: ", dict_get(info, "title", "archivo")>>)>>

\* the events reported when extract_info returned info
finished_events(info) ==
    <<DownloadProgress(Pct(100), "finished",
                       <<"Descarga completa: ", dict_get(info, "title", "archivo")>>)>>

\* extract_info returns: lines 204-210
EngineReturns(info) ==
    /\ pc = "g_engine"
    /\ events' = report_all(events, finished_events(info))
    /\ result' = <<info>>
    /\ pc' = "done"
    /\ UNCHANGED <<ui, san, am, progress_callback, _downloaders, instances, imageio_ffmpeg, system_ffmpeg,
                   downloads, call, inst, opts, hook_calls, ops, raised>>

\* the events reported by the except clause of download for the exception e
except_events(e) ==
    <<DownloadProgress(Pct(0), "error", <<"Error: ", str(e)>>)>>

\* an except clause that reports and does not raise again
reraise_swallowed(e) == <<>>

\* what leaves download() when the engine raised e: the bare `raise`
reraise(e) == <<e>>

\* the engine raises: lines 212-217
EngineRaises(e) ==
    /\ pc = "g_engine"
    /\ events' = report_all(events, except_events(e))
    /\ raised' = reraise(e)
    /\ pc' = "done"
    /\ UNCHANGED <<ui, san, am, progress_callback, _downloaders, instances, imageio_ffmpeg, system_ffmpeg,
                   downloads, call, inst, opts, hook_calls, ops, result>>

(***************************************************************************)
(* AudiomackDownloader.download: _extract_streaming_url (lines 38-140).    *)
(***************************************************************************)
\* what the browser raises
WebDriverError == [cls |-> "WebDriverException", msg |-> <<"Message: chrome not reachable">>]

\* what the wait for the play control and its click raise
PlayErrors ==
    { [cls |-> "TimeoutException", msg |-> <<"Message: ">>],
      [cls |-> "JavascriptException", msg |-> <<"Message: javascript error">>] }

\* h1.text of the page, or None when find_element raises
S_heading_two == <<"M","C"," ","X","\n"," ","M","y",":"," ","S","o","n","g"," ">>
S_heading_one == <<" ","L","i","v","e","\n">>

H1Outcomes == {None, S_heading_two, S_heading_one}

\* entries of the browser's performance log
S_stream_m4a == <<"h","t","t","p","s",":","/","/","m","u","s","i","c",".","a","u","d","i","o","m","a","c","k",".","c","o","m","/","a",".","m","4","a","?","t","=","1">>
S_stream_mp3 == <<"h","t","t","p","s",":","/","/","m","u","s","i","c",".","a","u","d","i","o","m","a","c","k",".","c","o","m","/","b",".","m","p","3">>
S_other_url == <<"h","t","t","p","s",":","/","/","c","d","n",".","e","x","a","m","p","l","e","/","x",".","j","s">>

LogEntry(method, url) == [ok |-> TRUE, method |-> method, url |-> url]
UnreadableEntry == [ok |-> FALSE]

PerformanceLogs ==
    { << UnreadableEntry,
         LogEntry("Network.responseReceived", S_stream_m4a),
         LogEntry("Network.requestWillBeSent", S_other_url) >>,
      << UnreadableEntry,
         LogEntry("Network.requestWillBeSent", S_other_url),
         LogEntry("Network.requestWillBeSent", S_stream_m4a),
         LogEntry("Network.requestWillBeSent", S_stream_mp3) >>,
      << LogEntry("Network.requestWillBeSent", S_stream_mp3) >>,
      << LogEntry("Network.responseReceived", S_stream_m4a),
         LogEntry("Network.requestWillBeSent", S_stream_mp3),
         UnreadableEntry,
         LogEntry("Network.requestWillBeSent", S_stream_m4a) >>,
      << >> }

\* line 44: _get_driver raises before the try block is entered
GetDriverFails ==
    /\ pc = "am_driver"
    /\ ops' = Append(ops, "_get_driver")
    /\ raised' = <<WebDriverError>>
    /\ pc' = "done"
    /\ UNCHANGED <<ui, san, am, progress_callback, _downloaders, instances, imageio_ffmpeg,
                   system_ffmpeg, downloads, call, inst, opts, hook_calls, events, result>>

\* lines 44-52: the browser is started.  am.logs holds <<the list get_log
\* returned>> once it returned; streaming_url (None at line 45) and dest_path
\* are the empty sequence until they are given a value
GetDriver ==
    /\ pc = "am_driver"
    /\ ops' = Append(ops, "_get_driver")
    /\ am' = [driver |-> "open", metadata |-> DefaultMetadata, logs |-> <<>>,
              streaming_url |-> <<>>, dest_path |-> <<>>,
              files |-> {}, transcode |-> "none"]
    /\ events' = _report_progress(events,
            DownloadProgress(Pct(10), "downloading", <<"Cargando pagina...", "">>))
    /\ pc' = "am_get"
    /\ UNCHANGED <<ui, san, progress_callback, _downloaders, instances, imageio_ffmpeg,
                   system_ffmpeg, downloads, call, inst, opts, hook_calls, result, raised>>

\* a browser call raising e with no `finally` clause around it
BrowserCallRaises_no_finally(op, e) ==
    /\ ops' = Append(ops, op)
    /\ raised' = <<e>>
    /\ pc' = "done"
    /\ UNCHANGED <<ui, san, am, progress_callback, _downloaders, instances, imageio_ffmpeg,
                   system_ffmpeg, downloads, call, inst, opts, hook_calls, events, result>>

\* a browser call inside the try block raises e: `finally` quits the browser and
\* e leaves download
BrowserCallRaises(op, e) ==
    /\ ops' = ops \o <<op, "quit">>
    /\ am' = [am EXCEPT !.driver = "quit"]
    /\ raised' = <<e>>
    /\ pc' = "done"
    /\ UNCHANGED <<ui, san, progress_callback, _downloaders, instances, imageio_ffmpeg,
                   system_ffmpeg, downloads, call, inst, opts, hook_calls, events, result>>

\* line 54
PageLoadFails ==
    /\ pc = "am_get"
    /\ BrowserCallRaises("get", WebDriverError)

\* lines 54-68: the page loads; the cookie button is absent, clicked, or its click
\* raises, and download goes on alike
PageLoads ==
    /\ pc = "am_get"
    /\ ops' = Append(ops, "get")
    /\ events' = _report_progress(events,
            DownloadProgress(Pct(15), "downloading", <<"Cerrando popups...", "">>))
    /\ pc' = "am_overlays"
    /\ UNCHANGED <<ui, san, am, progress_callback, _downloaders, instances, imageio_ffmpeg,
                   system_ffmpeg, downloads, call, inst, opts, hook_calls, result, raised>>

\* lines 71-73
RemoveOverlaysFails ==
    /\ pc = "am_overlays"
    /\ BrowserCallRaises("execute_script", WebDriverError)

\* lines 71-99: the overlays are removed, the metadata is read from the address
\* and then from the heading
RemoveOverlays(h1) ==
    /\ pc = "am_overlays"
    /\ ops' = Append(ops, "execute_script")
    /\ am' = [am EXCEPT !.metadata =
                IF h1 = None THEN url_metadata(config.url)
                ELSE heading_metadata(url_metadata(config.url), h1)]
    /\ events' = _report_progress(events,
            DownloadProgress(Pct(25), "downloading", <<"Iniciando reproduccion...", "">>))
    /\ pc' = "am_play"
    /\ UNCHANGED <<ui, san, progress_callback, _downloaders, instances, imageio_ffmpeg,
                   system_ffmpeg, downloads, call, inst, opts, hook_calls, result, raised>>

\* line 107 raising the exception it caught as it is
PlayButtonError_bare(e) == e

\* lines 106-107
PlayButtonError(e) == [cls |-> "Exception", msg |-> <<"No se encontro boton de play: ", str(e)>>]

\* lines 101-107: the play control is not found or its click raises
PlayButtonFails(e) ==
    /\ pc = "am_play"
    /\ BrowserCallRaises("play", PlayButtonError(e))

\* lines 101-120: the play control is clicked
PlayButtonClicked ==
    /\ pc = "am_play"
    /\ ops' = Append(ops, "play")
    /\ events' = report_all(events,
            << DownloadProgress(Pct(35), "downloading", <<"Esperando carga de audio...", "">>),
               DownloadProgress(Pct(50), "downloading", <<"Buscando URL de audio...", "">>) >>)
    /\ pc' = "am_logs"
    /\ UNCHANGED <<ui, san, am, progress_callback, _downloaders, instances, imageio_ffmpeg,
                   system_ffmpeg, downloads, call, inst, opts, hook_calls, result, raised>>

\* line 122
GetLogFails ==
    /\ pc = "am_logs"
    /\ BrowserCallRaises("get_log", WebDriverError)

(***************************************************************************)
(* AudiomackDownloader.download after the browser (lines 180-242).         *)
(***************************************************************************)
\* line 183
NoStreamingURLError == [cls |-> "Exception", msg |-> <<"No se pudo obtener la URL de streaming.">>]

\* lines 122-140 and 180-204: the log is read and scanned and the browser quits;
\* without a streaming URL download raises, with one it sanitizes the metadata
\* and names the file
ScanLogs(logs) ==
    /\ pc = "am_logs"
    /\ ops' = ops \o <<"get_log", "quit">>
    /\ LET found == scan_logs(logs)
       IN  IF ~Truthy(found)
           THEN /\ am' = [am EXCEPT !.driver = "quit", !.logs = <<logs>>]
                /\ raised' = <<NoStreamingURLError>>
                /\ pc' = "done"
                /\ UNCHANGED events
           ELSE LET metadata == sanitize_metadata(am.metadata)
                IN  /\ am' = [am EXCEPT !.driver = "quit",
                                        !.logs = <<logs>>,
                                        !.streaming_url = found,
                                        !.metadata = metadata,
                                        !.dest_path = <<config.output_dir,
                                                        file_name(metadata, extension(found))>>]
                    /\ events' = _report_progress(events,
                            DownloadProgress(Pct(55), "downloading",
                                             <<"Descargando: ", metadata.title>>))
                    /\ pc' = "am_makedirs"
                    /\ UNCHANGED raised
    /\ UNCHANGED <<ui, san, progress_callback, _downloaders, instances, imageio_ffmpeg,
                   system_ffmpeg, downloads, call, inst, opts, hook_calls, result>>

\* line 206 raises
MakedirsFails ==
    /\ pc = "am_makedirs"
    /\ ops' = Append(ops, "makedirs")
    /\ raised' = <<[cls |-> "OSError", msg |-> <<"[Errno 13] Permission denied">>]>>
    /\ pc' = "done"
    /\ UNCHANGED <<ui, san, am, progress_callback, _downloaders, instances, imageio_ffmpeg,
                   system_ffmpeg, downloads, call, inst, opts, hook_calls, events, result>>

\* line 206
Makedirs ==
    /\ pc = "am_makedirs"
    /\ ops' = Append(ops, "makedirs")
    /\ pc' = "am_file"
    /\ UNCHANGED <<ui, san, am, progress_callback, _downloaders, instances, imageio_ffmpeg,
                   system_ffmpeg, downloads, call, inst, opts, hook_calls, events, result,
                   raised>>

ChunkSize == 8192

\* the server's answers: the content-length header (0 when absent), the sizes of
\* the chunks read, and <<the exception that ends the transfer>>, if any
HttpResponses ==
    { [content_length |-> 0, chunks |-> <<ChunkSize>>, error |-> <<>>],
      [content_length |-> 2 * ChunkSize, chunks |-> <<ChunkSize, ChunkSize>>, error |-> <<>>],
      [content_length |-> ChunkSize, chunks |-> <<ChunkSize, ChunkSize>>, error |-> <<>>],
      [content_length |-> 0, chunks |-> <<>>,
       error |-> <<[cls |-> "HTTPError", msg |-> <<"HTTP Error 403: Forbidden">>]>>],
      [content_length |-> 2 * ChunkSize, chunks |-> <<ChunkSize>>,
       error |-> <<[cls |-> "ConnectionResetError",
                    msg |-> <<"[Errno 104] Connection reset by peer">>]>>] }

\* lines 157-170: the events of the chunks read, `downloaded` bytes having been read
RECURSIVE chunk_events(_, _, _)
chunk_events(total, downloaded, chunks) ==
    IF chunks = <<>> THEN <<>>
    ELSE LET now == downloaded + Head(chunks)
         IN  (IF total > 0
              THEN <<DownloadProgress(<<60 * total + now * 35, total>>, "downloading",
                                      <<"Descargando... {} KB / {} KB",
                                        now \div 1024, total \div 1024>>)>>
              ELSE <<>>)
             \o chunk_events(total, now, Tail(chunks))

\* line 212
needs_mp3(cfg, streaming_url, cached) ==
    /\ cfg.output_format = "AUDIO"
    /\ extension(streaming_url) = S_m4a
    /\ _has_ffmpeg(cached)

\* lines 232-235
am_finished_events(metadata) ==
    <<DownloadProgress(Pct(100), "finished", <<"Descarga completa: ", metadata.title>>)>>

\* lines 237-242
am_result(metadata, dest_path) ==
    [title |-> metadata.title, artist |-> metadata.artist, id |-> metadata.id,
     filepath |-> dest_path]

\* lines 149-162: the request fails, or a read fails after the file was opened
DownloadFileFails(resp) ==
    /\ pc = "am_file"
    /\ resp.error # <<>>
    /\ ops' = Append(ops, "urlopen")
    /\ events' = report_all(events, chunk_events(resp.content_length, 0, resp.chunks))
    /\ raised' = resp.error
    /\ am' = [am EXCEPT !.files = IF resp.chunks # <<>> THEN {am.dest_path[2]} ELSE {}]
    /\ pc' = "done"
    /\ UNCHANGED <<ui, san, progress_callback, _downloaders, instances, imageio_ffmpeg,
                   system_ffmpeg, downloads, call, inst, opts, hook_calls, result>>

\* lines 209-242: the file is written; download either starts the conversion or
\* finishes.  For an AUDIO request of an m4a, _has_ffmpeg calls the resolver at
\* line 212 and, when it found a tool, line 214 calls it again
DownloadFile(resp) ==
    /\ pc = "am_file"
    /\ resp.error = <<>>
    /\ ops' = Append(ops, "urlopen")
    /\ LET written == report_all(events, chunk_events(resp.content_length, 0, resp.chunks))
           lookup  == config.output_format = "AUDIO" /\ extension(am.streaming_url) = S_m4a
       IN  /\ instances' = IF lookup
                           THEN [instances EXCEPT
                                    ![inst]._ffmpeg_path = _get_ffmpeg_path(@),
                                    ![inst].resolutions =
                                        @ + resolutions_of_call(Self._ffmpeg_path)
                                          + (IF _has_ffmpeg(Self._ffmpeg_path)
                                             THEN resolutions_of_call(
                                                      _get_ffmpeg_path(Self._ffmpeg_path))
                                             ELSE 0)]
                           ELSE instances
           /\ IF needs_mp3(config, am.streaming_url, Self._ffmpeg_path)
              THEN /\ events' = _report_progress(written,
                           DownloadProgress(Pct(96), "processing", <<"Convirtiendo a MP3...", "">>))
                   /\ pc' = "am_convert"
                   /\ UNCHANGED result
              ELSE /\ events' = report_all(written, am_finished_events(am.metadata))
                   /\ result' = <<am_result(am.metadata, am.dest_path)>>
                   /\ pc' = "done"
    /\ am' = [am EXCEPT !.files = {am.dest_path[2]}]
    /\ UNCHANGED <<ui, san, progress_callback, _downloaders, imageio_ffmpeg,
                   system_ffmpeg, downloads, call, inst, opts, hook_calls, raised>>

\* lines 222-242: the tool has run and either wrote the mp3 (succeeded) or wrote
\* nothing; mp3_before tells whether the output directory already held a file
\* with the mp3's name
Convert(succeeded, mp3_before) ==
    /\ pc = "am_convert"
    /\ LET m4a        == am.dest_path[2]
           mp3        == mp3_name(m4a)
           after_run  == am.files \cup (IF succeeded \/ mp3_before THEN {mp3} ELSE {})
           mp3_exists == mp3 \in after_run
           dest_path  == IF mp3_exists THEN <<am.dest_path[1], mp3>> ELSE am.dest_path
       IN  /\ ops' = ops \o (IF mp3_exists THEN <<"ffmpeg", "remove">> ELSE <<"ffmpeg">>)
           /\ am' = [am EXCEPT !.dest_path = dest_path,
                               !.files = IF mp3_exists THEN after_run \ {m4a} ELSE after_run,
                               !.transcode = IF succeeded THEN "succeeded" ELSE "failed"]
           /\ result' = <<am_result(am.metadata, dest_path)>>
    /\ events' = report_all(events, am_finished_events(am.metadata))
    /\ pc' = "done"
    /\ UNCHANGED <<ui, san, progress_callback, _downloaders, instances, imageio_ffmpeg,
                   system_ffmpeg, downloads, call, inst, opts, hook_calls, raised>>

(***************************************************************************)
(* The caller takes the outcome; the manager is ready for the next call.   *)
(***************************************************************************)
Return ==
    /\ pc = "done"
    /\ pc' = "idle"
    /\ call' = <<>>
    /\ inst' = 0
    /\ opts' = <<>>
    /\ hook_calls' = 0
    /\ events' = <<>>
    /\ ops' = <<>>
    /\ result' = <<>>
    /\ raised' = <<>>
    /\ am' = <<>>
    /\ instances' = [i \in DOMAIN instances |-> [instances[i] EXCEPT !.resolutions = 0]]
    /\ UNCHANGED <<ui, san, progress_callback, _downloaders, imageio_ffmpeg, system_ffmpeg,
                   downloads>>

\* the steps of a download call that has started
DownloadSteps ==
    \/ BuildOptionsFails
    \/ BuildOptions
    \/ \E d \in ProgressHookInputs : EngineProgressHook(d)
    \/ \E d \in PostprocessorHookInputs : EnginePostprocessorHook(d)
    \/ \E info \in EngineInfos : EngineReturns(info)
    \/ \E e \in EngineErrors : EngineRaises(e)
    \/ GetDriverFails
    \/ GetDriver
    \/ PageLoadFails
    \/ PageLoads
    \/ RemoveOverlaysFails
    \/ \E h1 \in H1Outcomes : RemoveOverlays(h1)
    \/ \E e \in PlayErrors : PlayButtonFails(e)
    \/ PlayButtonClicked
    \/ GetLogFails
    \/ \E logs \in PerformanceLogs : ScanLogs(logs)
    \/ MakedirsFails
    \/ Makedirs
    \/ \E resp \in HttpResponses : DownloadFileFails(resp)
    \/ \E resp \in HttpResponses : DownloadFile(resp)
    \/ \E succeeded, mp3_before \in BOOLEAN : Convert(succeeded, mp3_before)

Next ==
    \/ \E url \in DetectURLs : DetectPlatform(url)
    \/ \E cfg \in DownloadConfigs : StartDownload(cfg)
    \/ DownloadSteps
    \/ Return

Spec == Init /\ [][Next]_vars


(***************************************************************************)
(* The host application (ui/main_window.py): the download button starts a  *)
(* worker thread that makes a DownloadManager and calls download; the      *)
(* worker hands its dialogs and _set_busy(False) to the Tk main loop with  *)
(* after(0, ...).                                                          *)
(***************************************************************************)
\* _set_busy with a button that stays enabled
button_state_always_normal(busy) == "normal"

\* line 165: the state given to the inputs and to btn_download
button_state(busy) == IF busy THEN "disabled" ELSE "normal"

\* MainWindow._set_busy
_set_busy(window, busy) ==
    [window EXCEPT !._downloading = busy, !.button = button_state(busy)]

\* the DownloadConfig objects _start_download builds: no ffmpeg_path
WindowConfigs == {cfg \in DownloadConfigs : cfg.ffmpeg_path = None}

\* what _start_download shows when it returns before starting a worker
ValidationErrors ==
    {"Introduce una URL de video.", "Selecciona una carpeta de salida.",
     "No se puede crear la carpeta"}

InitWindow ==
    /\ progress_callback = TRUE
    /\ _downloaders = <<>>
    /\ instances = <<>>
    /\ \E env \in Environments : imageio_ffmpeg = env[1] /\ system_ffmpeg = env[2]
    /\ downloads = 0
    /\ pc = "idle"
    /\ call = <<>>
    /\ inst = 0
    /\ opts = <<>>
    /\ hook_calls = 0
    /\ events = <<>>
    /\ ops = <<>>
    /\ result = <<>>
    /\ raised = <<>>
    /\ am = <<>>
    /\ san = <<>>
    /\ ui = [_downloading |-> FALSE, button |-> "normal", worker |-> "none", in_flight |-> 0,
             after |-> <<>>, config |-> <<>>, dialog |-> "", outcome |-> "none"]

\* _start_download returns at one of its validations (lines 191-205); Tk runs the
\* command of the button only while the button is enabled
StartDownloadRejected(message) ==
    /\ ui.button = "normal"
    /\ ui' = [ui EXCEPT !.dialog = message]
    /\ UNCHANGED <<progress_callback, _downloaders, instances, imageio_ffmpeg, system_ffmpeg,
                   downloads, pc, call, inst, opts, hook_calls, events, ops, result, raised,
                   am, san>>

\* _start_download, lines 207-229: the window is set busy and the worker started
StartDownloadClicked(cfg) ==
    /\ ui.button = "normal"
    /\ downloads + ui.in_flight < MaxDownloads
    /\ ui' = [_set_busy(ui, TRUE) EXCEPT !.worker = "started", !.in_flight = @ + 1,
                                        !.config = cfg, !.outcome = "none"]
    /\ UNCHANGED <<progress_callback, _downloaders, instances, imageio_ffmpeg, system_ffmpeg,
                   downloads, pc, call, inst, opts, hook_calls, events, ops, result, raised,
                   am, san>>

\* _download_worker, lines 233-234: a manager is made and download is called
WorkerCallsDownload ==
    /\ ui.worker = "started"
    /\ StartDownload(ui.config)

\* _download_worker, lines 236-251: the call returned or raised; the dialog and
\* then _set_busy(False) are handed to the main loop, and the worker ends, its
\* manager with it
WorkerFinishes ==
    /\ pc = "done"
    /\ ui' = [ui EXCEPT !.worker = "none",
                        !.in_flight = @ - 1,
                        !.outcome = IF raised # <<>> THEN "raised" ELSE "returned",
                        !.after = @ \o <<IF raised # <<>> THEN "showerror" ELSE "showinfo",
                                         "_set_busy(False)">>]
    /\ _downloaders' = <<>>
    /\ instances' = <<>>
    /\ pc' = "idle"
    /\ call' = <<>>
    /\ inst' = 0
    /\ opts' = <<>>
    /\ hook_calls' = 0
    /\ events' = <<>>
    /\ ops' = <<>>
    /\ result' = <<>>
    /\ raised' = <<>>
    /\ am' = <<>>
    /\ UNCHANGED <<progress_callback, imageio_ffmpeg, system_ffmpeg, downloads, san>>

\* the main loop runs the oldest callback given to after(0, ...)
MainLoopRunsCallback ==
    /\ ui.after # <<>>
    /\ ui' = IF Head(ui.after) = "_set_busy(False)"
             THEN [_set_busy(ui, FALSE) EXCEPT !.after = Tail(@)]
             ELSE [ui EXCEPT !.after = Tail(@), !.dialog = Head(ui.after)]
    /\ UNCHANGED <<progress_callback, _downloaders, instances, imageio_ffmpeg, system_ffmpeg,
                   downloads, pc, call, inst, opts, hook_calls, events, ops, result, raised,
                   am, san>>

\* what the worker thread does
WorkerSteps == WorkerCallsDownload \/ DownloadSteps \/ WorkerFinishes

NextWindow ==
    \/ \E message \in ValidationErrors : StartDownloadRejected(message)
    \/ \E cfg \in WindowConfigs : StartDownloadClicked(cfg)
    \/ WorkerSteps
    \/ MainLoopRunsCallback

\* the worker thread runs, every call it makes returns or raises, and the main
\* loop keeps serving its queue
SpecWindow ==
    InitWindow /\ [][NextWindow]_vars /\ WF_vars(WorkerSteps) /\ WF_vars(MainLoopRunsCallback)

(***************************************************************************)
(* The metadata sanitizer of AudiomackDownloader.download on its own: the  *)
(* title and the artist are arbitrary page text.  Inputs are a run of "a"  *)
(* up to the field's cap followed by a short tail over letters, white      *)
(* space and the characters the sanitizer replaces.                        *)
(***************************************************************************)
SanAlphabet == {"a"} \cup Whitespace \cup IllegalChars

RECURSIVE Tails(_)
Tails(n) ==
    IF n = 0 THEN {<<>>}
    ELSE LET shorter == Tails(n - 1)
         IN  shorter \cup {t \o <<c>> : t \in shorter, c \in SanAlphabet}

Pad(n) == [i \in 1..n |-> "a"]

Cap(field) == IF field = "title" THEN TitleCap ELSE ArtistCap

\* lines 192-193: metadata[field] = clean(metadata[field])[:cap]
sanitize(field, text) ==
    IF field = "title" THEN sanitize_title(text) ELSE sanitize_artist(text)

SanitizerInputs(field) ==
    { Pad(n) \o t : n \in {0, Cap(field) - 2, Cap(field) - 1, Cap(field)}, t \in Tails(MaxTail) }

InitSanitizer ==
    /\ progress_callback = TRUE
    /\ _downloaders = <<>>
    /\ instances = <<>>
    /\ imageio_ffmpeg = None
    /\ system_ffmpeg = None
    /\ downloads = 0
    /\ pc = "idle"
    /\ call = <<>>
    /\ inst = 0
    /\ opts = <<>>
    /\ hook_calls = 0
    /\ events = <<>>
    /\ ops = <<>>
    /\ result = <<>>
    /\ raised = <<>>
    /\ am = <<>>
    /\ ui = <<>>
    /\ \E field \in {"title", "artist"} :
          \E text \in SanitizerInputs(field) :
              san = [field |-> field, stage |-> "raw", input |-> text,
                     output |-> <<>>, again |-> <<>>]

\* download sanitizes the field
Sanitize ==
    /\ san.stage = "raw"
    /\ san' = [san EXCEPT !.stage = "sanitized", !.output = sanitize(san.field, san.input)]
    /\ UNCHANGED <<ui, progress_callback, _downloaders, instances, imageio_ffmpeg, system_ffmpeg,
                   downloads, pc, call, inst, opts, hook_calls, events, ops, result, raised, am>>

\* the sanitizer is given its own output
SanitizeAgain ==
    /\ san.stage = "sanitized"
    /\ san' = [san EXCEPT !.stage = "resanitized", !.again = sanitize(san.field, san.output)]
    /\ UNCHANGED <<ui, progress_callback, _downloaders, instances, imageio_ffmpeg, system_ffmpeg,
                   downloads, pc, call, inst, opts, hook_calls, events, ops, result, raised, am>>

NextSanitizer == Sanitize \/ SanitizeAgain

SpecSanitizer == InitSanitizer /\ [][NextSanitizer]_vars

(***************************************************************************)
(* Properties.                                                             *)
(***************************************************************************)
Last(seq) == seq[Len(seq)]

\* the registry positions whose class has a domain inside the lowercased URL
MatchingPositions(url) ==
    LET url_lower == lower(url)
    IN  { i \in 1..Len(DOWNLOADERS) :
            \E k \in 1..Len(SUPPORTED_DOMAINS(DOWNLOADERS[i])) :
                Contains(url_lower, SUPPORTED_DOMAINS(DOWNLOADERS[i])[k]) }

\* the platform names in the registry's order
RegistryNames == <<"YouTube", "X (Twitter)", "Instagram", "Audiomack">>

ExpectedPlatform(url) ==
    LET matching == MatchingPositions(url)
    IN  IF matching = {} THEN "Desconocida"
        ELSE RegistryNames[CHOOSE i \in matching : \A j \in matching : i <= j]

DetectStep == pc = "idle" /\ pc' = "done" /\ call'.method = "detect_platform"

\* C1: a detect_platform call returns the name of the first registry entry, in the
\* order YouTube, X (Twitter), Instagram, Audiomack, one of whose domains is inside
\* the lowercased URL, and "Desconocida" when there is none; it raises nothing,
\* reports nothing, performs no external operation and leaves the instance cache
\* and the instances as they were.
C1_DetectPlatformFirstMatch ==
    [][DetectStep =>
        /\ result' = <<ExpectedPlatform(call'.arg)>>
        /\ raised' = <<>>
        /\ _downloaders' = _downloaders
        /\ instances' = instances
        /\ events' = events
        /\ ops' = ops]_vars

\* C1 witness: with a downloader already cached, an address matching both X and
\* Audiomack was detected as X (Twitter), the earlier registry entry.
C1_Witness ==
    /\ pc = "done"
    /\ call.method = "detect_platform"
    /\ Cardinality(MatchingPositions(call.arg)) = 2
    /\ result = <<"X (Twitter)">>
    /\ _downloaders # <<>>

DownloadStartStep == pc = "idle" /\ pc' # "idle" /\ call'.method = "download"

\* C2: a download call fails at once exactly when detect_platform gives the unknown
\* sentinel for its URL; the error's message lists the four platform names in
\* registry order, and up to the failure no progress event was delivered, no
\* downloader was constructed, the cache is unchanged and no external (network or
\* file system) operation was performed.
C2_UnsupportedURLFailsImmediately ==
    [][DownloadStartStep =>
        IF detect_platform(call'.arg.url) = "Desconocida"
        THEN /\ pc' = "done"
             /\ raised' = <<[cls |-> "ValueError",
                             msg |-> <<"URL no soportada. Plataformas disponibles: ",
                                       "YouTube", "X (Twitter)", "Instagram", "Audiomack">>]>>
             /\ result' = <<>>
             /\ events' = <<>>
             /\ ops' = <<>>
             /\ instances' = instances
             /\ _downloaders' = _downloaders
             /\ inst' = 0
        ELSE /\ pc' # "done"
             /\ raised' = <<>>
             /\ inst' # 0]_vars

\* C2 witness: a second download on a manager that holds a cached downloader has
\* failed with the unsupported-URL error.
C2_Witness ==
    /\ pc = "done"
    /\ call.method = "download"
    /\ raised # <<>>
    /\ raised[1].cls = "ValueError"
    /\ _downloaders # <<>>
    /\ downloads = 2

InstancesOf(insts, name) ==
    { i \in 1..Len(insts) : PLATFORM_NAME(insts[i].cls) = name }

\* C3: across download calls made one at a time, no platform name ever has more
\* than one downloader constructed for it; a cache entry, once present, stays and
\* keeps its instance; a download for a platform is served by the cached instance,
\* constructed by this call only when the platform had no entry.
C3_OneInstancePerPlatform ==
    [][/\ \A i \in 1..Len(RegistryNames) :
            Cardinality(InstancesOf(instances', RegistryNames[i])) <= 1
       /\ \A k \in DOMAIN _downloaders :
            k \in DOMAIN _downloaders' /\ _downloaders'[k] = _downloaders[k]
       /\ (DownloadStartStep /\ pc' # "done") =>
            LET key == detect_platform(call'.arg.url)
            IN  /\ key \in DOMAIN _downloaders'
                /\ inst' = _downloaders'[key]
                /\ PLATFORM_NAME(instances'[inst'].cls) = key
                /\ IF key \in DOMAIN _downloaders
                   THEN instances' = instances
                   ELSE Len(instances') = Len(instances) + 1]_vars

\* C3 witness: the second download for a platform is being served by the one
\* instance the first download constructed.
C3_Witness ==
    /\ downloads = 2
    /\ pc = "g_options"
    /\ Len(instances) = 1
    /\ inst = 1

StartEvent ==
    [percent |-> <<0, 1>>, speed |-> "", eta |-> "", status |-> "downloading",
     message |-> <<"Iniciando descarga...", "">>]

EngineLeftWithoutResult == pc = "g_engine" /\ pc' = "done" /\ result' = <<>>

\* C5: when the engine raises during a generic download, the downloader reports one
\* more event, an "error" whose message carries the failure's text, and that same
\* failure leaves download(); nothing is returned and no event of the download has
\* status "finished".  (Events are observable when the manager holds a callback.)
C5_EngineFailureReportedAndReraised ==
    [][EngineLeftWithoutResult =>
        /\ raised' # <<>>
        /\ raised'[1] \in EngineErrors
        /\ progress_callback =>
              /\ Len(events') = Len(events) + 1
              /\ Last(events').status = "error"
              /\ Last(events').message = <<"Error: ", raised'[1].msg[1]>>
        /\ \A i \in 1..Len(events') : events'[i].status # "finished"]_vars

\* C5 witness: a generic download whose engine raised after a hook call has ended,
\* with the callback installed.
C5_Witness ==
    /\ pc = "done"
    /\ progress_callback
    /\ raised # <<>>
    /\ raised[1] \in EngineErrors
    /\ Len(events) = 3
    /\ hook_calls = 1

GenericSucceeded ==
    /\ pc = "done"
    /\ call.method = "download"
    /\ inst # 0
    /\ IsGeneric(instances[inst].cls)
    /\ result # <<>>

\* C6: a generic download whose engine succeeded returns the engine's info mapping
\* as it is; with a callback installed its first event is the starting event
\* (status "downloading"), the hooks' events follow it, and its last event is the
\* only one with status "finished", at percent 100, naming the returned title.
C6_SuccessEventOrderAndResult ==
    GenericSucceeded =>
        /\ raised = <<>>
        /\ result[1] \in EngineInfos
        /\ progress_callback =>
              /\ Len(events) >= 2
              /\ events[1] = StartEvent
              /\ Last(events).status = "finished"
              /\ Last(events).percent = <<100, 1>>
              /\ Last(events).message[2] =
                    (IF "title" \in DOMAIN result[1] THEN result[1].title ELSE "archivo")
              /\ Cardinality({i \in 1..Len(events) : events[i].status = "finished"}) = 1
        /\ ~progress_callback => events = <<>>

\* C6 witness: a successful generic download with a hook event between the starting
\* and the finished event.
C6_Witness ==
    /\ GenericSucceeded
    /\ progress_callback
    /\ Len(events) = 3
    /\ events[2].status = "processing"

OptionsBuilt == pc \in {"g_engine", "done"} /\ opts # <<>>

\* C7: for YouTube, X and Instagram and every AUDIO config, with or without a
\* transcoding tool, the merged options select "bestaudio/best" and their
\* post-processor list holds the FFmpegExtractAudio step with codec mp3 and quality
\* "192"; the list holds an FFmpegMetadata step for YouTube only; and the base
\* options (output template, hooks, retries, noplaylist) are those the base set.
C7_AudioOptions ==
    (OptionsBuilt /\ config.output_format = "AUDIO") =>
        /\ opts.format = "bestaudio/best"
        /\ "postprocessors" \in DOMAIN opts
        /\ \E i \in 1..Len(opts.postprocessors) :
              opts.postprocessors[i] =
                 [key |-> "FFmpegExtractAudio", preferredcodec |-> "mp3",
                  preferredquality |-> "192"]
        /\ (\E i \in 1..Len(opts.postprocessors) :
              opts.postprocessors[i] = [key |-> "FFmpegMetadata"])
           <=> Self.cls = "YouTubeDownloader"
        /\ opts.outtmpl = <<config.output_dir, "%(title).120s [%(id)s].%(ext)s">>
        /\ opts.progress_hooks = <<"progress_hook">>
        /\ opts.postprocessor_hooks = <<"postprocessor_hook">>
        /\ opts.retries = 10
        /\ opts.fragment_retries = 10
        /\ opts.noplaylist = TRUE

\* C7 witness: AUDIO options were built for X on a machine without a transcoding tool.
C7_Witness ==
    /\ OptionsBuilt
    /\ config.output_format = "AUDIO"
    /\ Self.cls = "TwitterDownloader"
    /\ imageio_ffmpeg = None
    /\ system_ffmpeg = None

\* the resolver finds a transcoding tool on this machine
ToolAvailable == imageio_ffmpeg # None \/ system_ffmpeg # None

\* C8: for YouTube, X and Instagram and every VIDEO config, the merged options
\* select "bestvideo+bestaudio/best" merged to "mp4" when the downloader's resolver
\* finds a transcoding tool, and the single stream "best" with no
\* merge_output_format when it finds none.
C8_VideoOptions ==
    (OptionsBuilt /\ config.output_format = "VIDEO") =>
        IF ToolAvailable
        THEN /\ opts.format = "bestvideo+bestaudio/best"
             /\ "merge_output_format" \in DOMAIN opts
             /\ opts.merge_output_format = "mp4"
        ELSE /\ opts.format = "best"
             /\ "merge_output_format" \notin DOMAIN opts

\* C8 witness: VIDEO options were built for Instagram on a machine without a tool.
C8_Witness ==
    /\ OptionsBuilt
    /\ config.output_format = "VIDEO"
    /\ Self.cls = "InstagramDownloader"
    /\ ~ToolAvailable
    /\ opts.format = "best"


\* C9: the sanitizer as download applies it (clean, then cut to 100 characters for
\* the title or 50 for the artist) is idempotent: given its own output it returns
\* that output.
C9_SanitizerIdempotent ==
    (san # <<>> /\ san.stage = "resanitized") => san.again = san.output

LineBreaks == {"\n", "\r", "\f"}

\* C10: the sanitized title and artist hold none of the characters < > : " / \ | ? *
\* and no line break, and are at most 100 (title) and 50 (artist) characters long.
C10_SanitizedSafeAndCapped ==
    (san # <<>> /\ san.stage # "raw") =>
        /\ \A i \in 1..Len(san.output) :
              san.output[i] \notin {"<", ">", ":", "\"", "/", "\\", "|", "?", "*"} \cup LineBreaks
        /\ Len(san.output) <= (IF san.field = "title" THEN 100 ELSE 50)

\* C10 witness: an artist longer than the cap that held a replaced character and a
\* line break was sanitized to exactly the cap.
C10_Witness ==
    /\ san # <<>>
    /\ san.stage = "sanitized"
    /\ san.field = "artist"
    /\ Len(san.input) > 50
    /\ \E i \in 1..Len(san.input) : san.input[i] = "\n"
    /\ \E i \in 1..Len(san.input) : san.input[i] = "\\"
    /\ Len(san.output) = 50


\* C4: every download that fails, at whatever step, has reported exactly one "error"
\* event, that event is the last event of the download, and the failure is raised
\* to the caller.
C4_EveryFailureReportedOnce ==
    (pc = "done" /\ call.method = "download" /\ raised # <<>> /\ progress_callback) =>
        /\ events # <<>>
        /\ Last(events).status = "error"
        /\ Cardinality({i \in 1..Len(events) : events[i].status = "error"}) = 1


\* the positions of the log entries that are readable requests to the streaming host
StreamingRequests(logs) ==
    { i \in 1..Len(logs) :
        /\ logs[i].ok
        /\ logs[i].method = "Network.requestWillBeSent"
        /\ Contains(logs[i].url, S_music_audiomack_com) }

LogsScanned == am # <<>> /\ am.logs # <<>>

\* the performance log that was read
Logs == am.logs[1]

Count(op) == Cardinality({i \in 1..Len(ops) : ops[i] = op})

BrowserLaunched == am # <<>>

\* C12: when the Audiomack extraction launched a browser, the browser is quit at
\* most once, it has been quit exactly once as soon as the extraction has returned
\* or raised (whichever of navigation, overlay removal, play control and log read
\* failed or succeeded), and no HTTP request and no transcode is made while the
\* browser is alive.
C12_BrowserQuitExactlyOnce ==
    BrowserLaunched =>
        /\ Count("quit") <= 1
        /\ (am.driver = "quit") <=> (Count("quit") = 1)
        /\ (am.driver = "open") <=> (pc \in {"am_get", "am_overlays", "am_play", "am_logs"})
        /\ am.driver = "open" => Count("urlopen") = 0 /\ Count("ffmpeg") = 0
        /\ pc \in {"done", "am_makedirs", "am_file", "am_convert"} => Count("quit") = 1

\* C12 witness: the play control was not found and the browser has been quit.
C12_Witness ==
    /\ BrowserLaunched
    /\ pc = "done"
    /\ raised # <<>>
    /\ raised[1].msg[1] = "No se encontro boton de play: "
    /\ am.driver = "quit"
    /\ Count("quit") = 1


AudiomackCall ==
    pc # "idle" /\ call.method = "download" /\ inst # 0 /\ ~IsGeneric(instances[inst].cls)

\* the steps of the Audiomack sequence in the order of the code
AudiomackSteps ==
    <<"_get_driver", "get", "execute_script", "play", "get_log", "makedirs", "urlopen",
      "ffmpeg", "remove">>

\* the steps performed so far, the browser's teardown left out
StepsDone == SelectSeq(ops, LAMBDA op : op # "quit")

\* C13: in an Audiomack download every step is performed at most once and in the
\* order of the sequence; once a step has failed the download is over (no later
\* step runs: the next thing that happens is the caller taking the failure),
\* nothing is returned and the failure is raised; a failure of the play control
\* is raised as the error that names the play button, with no log read, no HTTP
\* request and no transcode.
C13_FailureAbortsDownload ==
    /\ [](AudiomackCall =>
            /\ \A i \in 1..Len(StepsDone) : StepsDone[i] = AudiomackSteps[i]
            /\ \A i \in 1..Len(AudiomackSteps) : Count(AudiomackSteps[i]) <= 1
            /\ raised # <<>> =>
                  /\ pc = "done"
                  /\ result = <<>>
                  /\ Last(StepsDone) = "play" =>
                        /\ raised[1].cls = "Exception"
                        /\ raised[1].msg[1] = "No se encontro boton de play: "
                        /\ am.logs = <<>>
                        /\ Count("get_log") = 0 /\ Count("urlopen") = 0 /\ Count("ffmpeg") = 0)
    /\ [][(AudiomackCall /\ raised # <<>>) => (pc' = "idle" /\ ops' = <<>>)]_vars

\* C13 witness: with the callback installed, the wait for the play control timed
\* out after the heading could not be read; the last event is the one at 25.
C13_Witness ==
    /\ AudiomackCall
    /\ progress_callback
    /\ raised # <<>>
    /\ raised[1].msg = <<"No se encontro boton de play: ", "Message: ">>
    /\ am.metadata = url_metadata(call.arg.url)
    /\ Last(events).percent = <<25, 1>>
    /\ Last(StepsDone) = "play"


TranscodeRan == AudiomackCall /\ am # <<>> /\ am.transcode # "none"

\* C14: after the Audiomack transcode step ran, nothing was raised and a result
\* is returned; if the transcode succeeded the m4a is gone and the returned path
\* is the mp3; if it failed the m4a still exists and is the returned path --
\* whatever the output directory held before.
C14_TranscodeFailsOpen ==
    TranscodeRan =>
        LET m4a == file_name(am.metadata, S_m4a)
            mp3 == mp3_name(m4a)
        IN  /\ raised = <<>>
            /\ result # <<>>
            /\ IF am.transcode = "succeeded"
               THEN /\ m4a \notin am.files
                    /\ mp3 \in am.files
                    /\ result[1].filepath = <<call.arg.output_dir, mp3>>
               ELSE /\ m4a \in am.files
                    /\ result[1].filepath = <<call.arg.output_dir, m4a>>


\* the engine invocation, the browser's navigation, the HTTP request
NetworkOps == {"extract_info", "get", "urlopen"}

OutputDirNotCreated ==
    /\ pc = "done"
    /\ call.method = "download"
    /\ raised # <<>>
    /\ raised[1].cls = "OSError"

\* C15: for every downloader, when the output directory cannot be created the
\* failure reaches the caller before any network activity of the download: no
\* engine invocation, no browser navigation and no HTTP request precedes the
\* attempt to create the directory.
C15_DirectoryFailureBeforeNetwork ==
    OutputDirNotCreated =>
        /\ Last(ops) = "makedirs"
        /\ \A i \in 1..Len(ops) : ops[i] \notin NetworkOps


\* C16: in the window, a download that was started (window busy, worker launched)
\* is eventually followed by the window being idle again, whether the manager's
\* download returned or raised; a worker is started only while the window is
\* not busy, so at most one download is in flight.
C16_WindowReturnsToIdle ==
    /\ [](ui.in_flight <= 1)
    /\ [](ui.in_flight = 1 => ui._downloading /\ ui.button = "disabled")
    /\ [][ui'.in_flight > ui.in_flight => ~ui._downloading /\ pc = "idle"]_vars
    /\ (ui._downloading /\ ui.worker = "started") ~> ~ui._downloading

\* C16 witness: the window is idle again after a second download, which raised.
C16_Witness ==
    /\ downloads = 2
    /\ ui.outcome = "raised"
    /\ ~ui._downloading
    /\ ui.button = "normal"
    /\ ui.after = <<>>
    /\ ui.dialog = "showerror"


\* the float n/d lies in [0, 100]
PercentInRange(percent) == 0 <= percent[1] /\ percent[1] <= 100 * percent[2]

\* C17: every DownloadProgress event delivered by any downloader has a percent
\* between 0 and 100 inclusive, whatever byte counts the engine's progress hook
\* or the HTTP response reported (total unknown, zero, or smaller than the bytes
\* received).
C17_PercentWithinBounds ==
    \A i \in 1..Len(events) : PercentInRange(events[i].percent)


\* C18: within one downloader instance the path of the transcoding tool is resolved
\* once and reused: however many calls of the resolver the option builders and the
\* Audiomack transcode check make in a download, first or later, the resolution
\* itself runs at most once in it.
C18_ToolPathResolvedOnce ==
    \A i \in 1..Len(instances) : instances[i].resolutions <= 1


\* the merged options select the merged format
SelectsMergedFormat ==
    /\ opts.format = "bestvideo+bestaudio/best"
    /\ "merge_output_format" \in DOMAIN opts
    /\ opts.merge_output_format = "mp4"

\* C19: for a VIDEO request of YouTube, X or Instagram, the merged options hold a
\* tool location (ffmpeg_location) exactly when they select
\* "bestvideo+bestaudio/best" merged to mp4 -- also when the config names the tool.
C19_ToolLocationIffMergedFormat ==
    (OptionsBuilt /\ config.output_format = "VIDEO") =>
        ("ffmpeg_location" \in DOMAIN opts <=> SelectsMergedFormat)


\* the file of the Audiomack download has been named
FileNamed == AudiomackCall /\ am # <<>> /\ am.dest_path # <<>>

\* C20: the file name the Audiomack downloader builds, "<artist> - <title> [<id>].<ext>",
\* holds none of the characters < > : " / \ | ? *, for every address the handler
\* accepts and every page heading.
C20_FileNameHasNoIllegalCharacter ==
    FileNamed => \A i \in 1..Len(am.dest_path[2]) : am.dest_path[2][i] \notin IllegalChars


\* p <= q for the floats p = n/d and q = n/d, neither negative: by their whole
\* parts, and by their fractions when those are equal
PercentLeq(p, q) ==
    LET whole_p == p[1] \div p[2]
        whole_q == q[1] \div q[2]
    IN  \/ whole_p < whole_q
        \/ /\ whole_p = whole_q
           /\ (p[1] % p[2]) * q[2] <= (q[1] % q[2]) * p[2]

AudiomackSucceeded == AudiomackCall /\ pc = "done" /\ result # <<>> /\ progress_callback

\* the percents every Audiomack download reports before the HTTP transfer
AudiomackFirstPercents == <<0, 10, 15, 25, 35, 50, 55>>

\* C21: in every successful Audiomack download the percents of the events are
\* non-decreasing (0, 10, 15, 25, 35, 50, 55, the values of the HTTP transfer,
\* 96 if the conversion runs, then 100), and the one "finished" event, at 100,
\* is the last event -- whatever content length and chunks the response had.
C21_AudiomackPercentsNonDecreasing ==
    AudiomackSucceeded =>
        /\ Len(events) > Len(AudiomackFirstPercents)
        /\ \A i \in 1..Len(AudiomackFirstPercents) :
              events[i].percent = Pct(AudiomackFirstPercents[i])
        /\ \A i \in 1..(Len(events) - 1) :
              PercentLeq(events[i].percent, events[i + 1].percent)
        /\ Last(events).status = "finished"
        /\ Last(events).percent = Pct(100)
        /\ Cardinality({i \in 1..Len(events) : events[i].status = "finished"}) = 1

=============================================================================
